---- MODULE Spec2Model ----
(***************************************************************************)
(* A model of batch_generate_ethereum_account_from_mnemonic.py: BIP39 seed *)
(* stretching, BIP32 master and child key derivation, extended-key         *)
(* serialisation, derivation-path parsing and the batch account driver.    *)
(*                                                                         *)
(* TLC integers are 32-bit, so the word sizes are scaled: a key, a chain   *)
(* code and a field element take KeyLen = 1 byte instead of 32, a child    *)
(* index takes IndexLen = 1 byte instead of 4 (BIP32_PRIVDEV is then 0x80  *)
(* instead of 0x80000000), and secp256k1 is replaced by the curve of the   *)
(* same equation y^2 = x^3 + 7 over the field of 211 elements, whose group *)
(* has the prime order 199 (so that, as for secp256k1,                     *)
(* order < field prime < 2^(8*KeyLen) < 2*order).                          *)
(*                                                                         *)
(* The hash functions (PBKDF2-HMAC-SHA512, HMAC-SHA512, Keccak-256) are    *)
(* not computed: each behaviour fixes one member, hseed, of a family of    *)
(* digest functions, and every hash of the behaviour is that function.     *)
(* The digest family has collisions, as any function to a shorter range.   *)
(***************************************************************************)
EXTENDS Integers, Sequences, FiniteSets, TLC

\* ---------------------------------------------------------------- bounds
MaxSeed == 3        \* digest functions 0..MaxSeed
MaxSegs == 2        \* '/'-delimited segments after the prefix of a sampled path
MaxCount == 2       \* accounts asked of the batch driver

\* ------------------------------------------------------ scaled constants
KeyLen == 1
IndexLen == 1
FingerprintLen == 4
AddressLen == 1
BIP39_PBKDF2_ROUNDS == 2048
FieldP == 211
CurveB == 7
Order == 199
GeneratorX == 3
GeneratorY == 33

Byte == 0..255

VARIABLES
    hseed,     \* the digest function of this behaviour
    op,        \* the function the caller invoked
    arg,       \* the arguments of a call that runs in one step
    ret,       \* its result
    dv,        \* the frame of derive_bip32childkey
    mk,        \* the frame of mnemonic_to_private_key
    bt,        \* the frame of batch_generate_ethereum_account_from_mnemonic
    pr,        \* the two derivations of one parent at i and i + BIP32_PRIVDEV
    envFile    \* the lines of the file ".env"

\* -------------------------------------------------------- results
\* A Python call either returns a value or raises an exception.
Ok(v) == [exc |-> "", val |-> v]
Raise(e) == [exc |-> e, val |-> <<>>]

\* -------------------------------------------------------- bytes
RECURSIVE Pow(_, _)
Pow(b, e) == IF e = 0 THEN 1 ELSE b * Pow(b, e - 1)

\* int.from_bytes(b, byteorder='big')
RECURSIVE from_bytes(_)
from_bytes(b) ==
    IF Len(b) = 0 THEN 0
    ELSE 256 * from_bytes(SubSeq(b, 1, Len(b) - 1)) + b[Len(b)]

\* v.to_bytes(n, byteorder='big'): OverflowError unless 0 <= v < 256^n
to_bytes(v, n) ==
    IF v < 0 \/ v >= Pow(256, n) THEN Raise("OverflowError")
    ELSE Ok([j \in 1..n |-> (v \div Pow(256, n - j)) % 256])

\* struct.pack('>L', i): struct.error unless i fits the unsigned word
pack_L(i) ==
    IF i < 0 \/ i >= Pow(256, IndexLen) THEN Raise("struct.error")
    ELSE Ok([j \in 1..IndexLen |-> (i \div Pow(256, IndexLen - j)) % 256])

\* bytes(chr(cp), 'utf-8') for a code point below 0x800
Utf8Char(cp) ==
    IF cp < 128 THEN <<cp>>
    ELSE <<192 + (cp \div 64), 128 + (cp % 64)>>

\* bytes(s, 'utf8') of a string given as its code points
RECURSIVE Utf8(_)
Utf8(s) == IF Len(s) = 0 THEN <<>> ELSE Utf8Char(Head(s)) \o Utf8(Tail(s))

HexDigits == <<"0", "1", "2", "3", "4", "5", "6", "7",
               "8", "9", "a", "b", "c", "d", "e", "f">>

\* str(binascii.hexlify(b), 'utf-8')
RECURSIVE hexlify(_)
hexlify(b) ==
    IF Len(b) = 0 THEN <<>>
    ELSE <<HexDigits[(Head(b) \div 16) + 1], HexDigits[(Head(b) % 16) + 1]>>
         \o hexlify(Tail(b))

HexVal(c) == (CHOOSE j \in 1..16 : HexDigits[j] = c) - 1

\* bytes.fromhex(s) of a string of an even number of hex digits
RECURSIVE fromhex(_)
fromhex(s) ==
    IF Len(s) < 2 THEN <<>>
    ELSE <<16 * HexVal(s[1]) + HexVal(s[2])>> \o fromhex(SubSeq(s, 3, Len(s)))

\* -------------------------------------------------------- the curve
INFINITY == <<>>
Generator == <<GeneratorX, GeneratorY>>

RECURSIVE PowMod(_, _, _)
PowMod(b, e, m) ==
    IF e = 0 THEN 1 % m
    ELSE IF e % 2 = 0 THEN PowMod((b * b) % m, e \div 2, m)
    ELSE (b * PowMod(b, e - 1, m)) % m

InvMod(a) == PowMod(a % FieldP, FieldP - 2, FieldP)

PointAdd(P, Q) ==
    IF P = INFINITY THEN Q
    ELSE IF Q = INFINITY THEN P
    ELSE IF P[1] = Q[1] /\ (P[2] + Q[2]) % FieldP = 0 THEN INFINITY
    ELSE LET l == IF P = Q
                  THEN (3 * P[1] * P[1] * InvMod(2 * P[2])) % FieldP
                  ELSE ((Q[2] - P[2] + FieldP) * InvMod(Q[1] - P[1] + FieldP)) % FieldP
             x == (l * l + 2 * FieldP - P[1] - Q[1]) % FieldP
             y == (l * (P[1] - x + FieldP) + FieldP - P[2]) % FieldP
         IN  <<x, y>>

RECURSIVE ScalarMult(_, _)
ScalarMult(k, P) ==
    IF k = 0 THEN INFINITY
    ELSE IF k % 2 = 0 THEN ScalarMult(k \div 2, PointAdd(P, P))
    ELSE PointAdd(P, ScalarMult(k - 1, P))

\* k * BIP32_CURVE.generator
GeneratorMul(k) ==
    IF k = 0 THEN INFINITY ELSE ScalarMult(k % (2 * Order), Generator)

\* -------------------------------------------------------- hashing
\* The digest family: byte t of member `seed` applied to (key, msg).
RECURSIVE WSum(_, _)
WSum(b, t) == IF Len(b) = 0 THEN 0 ELSE (Len(b) + t) * b[Len(b)] + WSum(SubSeq(b, 1, Len(b) - 1), t)

Digest(seed, tag, key, msg, n) ==
    [t \in 1..n |-> (seed * (2 * t - 1) + 31 * tag + 5 * t
                      + 3 * WSum(key, t) + WSum(msg, t + 1)) % 256]

\* hmac.new(k, d, hashlib.sha512).digest(), 2*KeyLen bytes at this scale
hmac_sha512(k, d) == Digest(hseed, 1, k, d, 2 * KeyLen)

\* hashlib.pbkdf2_hmac('sha512', password, salt, rounds)
pbkdf2_hmac_sha512(password, salt, rounds) ==
    Digest(hseed, 2 + rounds, password, salt, 2 * KeyLen)

\* eth_utils.keccak(b), 2*KeyLen bytes at this scale
keccak(b) == Digest(hseed, 3, <<>>, b, 2 * KeyLen)

BIP39_SALT_MODIFIER == <<109, 110, 101, 109, 111, 110, 105, 99>>
BIP32_PRIVDEV == Pow(256, IndexLen) \div 2
BIP32_SEED_MODIFIER == <<66, 105, 116, 99, 111, 105, 110, 32, 115, 101, 101, 100>>
ETH_DERIVATION_PATH == <<"m", "/", "4", "4", "'", "/", "6", "0", "'", "/", "0", "'", "/", "0", "/">>

mnemonic_to_bip39seed(mnemonic, passphrase) ==
    pbkdf2_hmac_sha512(Utf8(mnemonic), Utf8(BIP39_SALT_MODIFIER \o passphrase),
                       BIP39_PBKDF2_ROUNDS)

bip39seed_to_bip32masternode(seed) ==
    LET h == hmac_sha512(BIP32_SEED_MODIFIER, seed)
    IN  [key |-> SubSeq(h, 1, KeyLen), chain_code |-> SubSeq(h, KeyLen + 1, 2 * KeyLen)]

\* Q.x() of the point at infinity is None, and None.to_bytes raises.
derive_public_key(private_key) ==
    LET Q == GeneratorMul(from_bytes(private_key))
    IN  IF Q = INFINITY THEN Raise("AttributeError")
        ELSE LET xstr == to_bytes(Q[1], KeyLen)
                 parity == Q[2] % 2
             IN  IF xstr.exc # "" THEN xstr ELSE Ok(<<2 + parity>> \o xstr.val)

\* (i & BIP32_PRIVDEV) != 0, on Python's unbounded two's-complement integers
IsHardened(i) == (i \div BIP32_PRIVDEV) % 2 = 1

\* DeriveData without the hardened branch: the public key is hashed for every index.
DeriveData_AlwaysPublic(parent_key, parent_chain_code, i) ==
    IF Len(parent_key) # KeyLen \/ Len(parent_chain_code) # KeyLen
    THEN Raise("AssertionError")
    ELSE LET key == derive_public_key(parent_key)
             idx == pack_L(i)
         IN  IF key.exc # "" THEN key
             ELSE IF idx.exc # "" THEN idx
             ELSE Ok(key.val \o idx.val)

\* Lines 62-69 of derive_bip32childkey: the first HMAC input d.
DeriveData(parent_key, parent_chain_code, i) ==
    IF Len(parent_key) # KeyLen \/ Len(parent_chain_code) # KeyLen
    THEN Raise("AssertionError")
    ELSE LET key == IF IsHardened(i) THEN Ok(<<0>> \o parent_key)
                    ELSE derive_public_key(parent_key)
             idx == pack_L(i)
         IN  IF key.exc # "" THEN key
             ELSE IF idx.exc # "" THEN idx
             ELSE Ok(key.val \o idx.val)

\* DeriveIter without the test `key != 0`.
DeriveIter_NoZeroCheck(k, d, parent_key, i) ==
    LET h == hmac_sha512(k, d)
        a == from_bytes(SubSeq(h, 1, KeyLen))
        b == from_bytes(parent_key)
        key == (a + b) % Order
        chain_code == SubSeq(h, KeyLen + 1, 2 * KeyLen)
    IN  IF a < Order
        THEN [brk |-> TRUE, key |-> to_bytes(key, KeyLen).val, chain_code |-> chain_code,
              d |-> d, h |-> h]
        ELSE [brk |-> FALSE, key |-> key, chain_code |-> chain_code,
              d |-> <<1>> \o chain_code \o pack_L(i).val, h |-> h]

\* DeriveIter retrying from h[:32] instead of h[32:].
DeriveIter_RetryFromIL(k, d, parent_key, i) ==
    LET h == hmac_sha512(k, d)
        a == from_bytes(SubSeq(h, 1, KeyLen))
        b == from_bytes(parent_key)
        key == (a + b) % Order
        chain_code == SubSeq(h, KeyLen + 1, 2 * KeyLen)
    IN  IF a < Order /\ key # 0
        THEN [brk |-> TRUE, key |-> to_bytes(key, KeyLen).val, chain_code |-> chain_code,
              d |-> d, h |-> h]
        ELSE [brk |-> FALSE, key |-> key, chain_code |-> chain_code,
              d |-> <<1>> \o SubSeq(h, 1, KeyLen) \o pack_L(i).val, h |-> h]

\* Lines 71-79: one iteration of the while loop.
DeriveIter(k, d, parent_key, i) ==
    LET h == hmac_sha512(k, d)
        a == from_bytes(SubSeq(h, 1, KeyLen))
        b == from_bytes(parent_key)
        key == (a + b) % Order
        chain_code == SubSeq(h, KeyLen + 1, 2 * KeyLen)
    IN  IF a < Order /\ key # 0
        THEN [brk |-> TRUE, key |-> to_bytes(key, KeyLen).val, chain_code |-> chain_code,
              d |-> d, h |-> h]
        ELSE [brk |-> FALSE, key |-> key, chain_code |-> chain_code,
              d |-> <<1>> \o chain_code \o pack_L(i).val, h |-> h]

\* -------------------------------------------------------- extended keys
\* base58.b58encode_check(raw): the encoder is not modelled, its argument is.
b58encode_check(raw) == <<"b58check", raw>>

XPRV_VERSION == <<4, 136, 173, 228>>
XPUB_VERSION == <<4, 136, 178, 30>>

\* Lines 93-100: the payload of b58xprv.
xprv_raw(parent_fingerprint, private_key, chain, depth, childnr) ==
    LET nr == to_bytes(childnr, IndexLen)
    IN  IF nr.exc # "" THEN nr
        ELSE Ok(XPRV_VERSION \o Utf8Char(depth) \o parent_fingerprint \o nr.val
                \o chain \o <<0>> \o private_key)

\* Lines 108-114: the payload of b58xpub.
xpub_raw(parent_fingerprint, public_key, chain, depth, childnr) ==
    LET nr == to_bytes(childnr, IndexLen)
    IN  IF nr.exc # "" THEN nr
        ELSE Ok(XPUB_VERSION \o Utf8Char(depth) \o parent_fingerprint \o nr.val
                \o chain \o public_key)

b58xprv(parent_fingerprint, private_key, chain, depth, childnr) ==
    LET raw == xprv_raw(parent_fingerprint, private_key, chain, depth, childnr)
    IN  IF raw.exc # "" THEN raw ELSE Ok(b58encode_check(raw.val))

b58xpub(parent_fingerprint, public_key, chain, depth, childnr) ==
    LET raw == xpub_raw(parent_fingerprint, public_key, chain, depth, childnr)
    IN  IF raw.exc # "" THEN raw ELSE Ok(b58encode_check(raw.val))

\* -------------------------------------------------------- path parsing
\* A string is the sequence of its characters.
Digits == <<"0", "1", "2", "3", "4", "5", "6", "7", "8", "9">>
IsDigit(c) == \E j \in 1..10 : Digits[j] = c
DigitVal(c) == (CHOOSE j \in 1..10 : Digits[j] = c) - 1

RECURSIVE LStrip(_, _)
LStrip(s, chars) ==
    IF Len(s) > 0 /\ Head(s) \in chars THEN LStrip(Tail(s), chars) ELSE s

RECURSIVE RStrip(_, _)
RStrip(s, chars) ==
    IF Len(s) > 0 /\ s[Len(s)] \in chars THEN RStrip(SubSeq(s, 1, Len(s) - 1), chars) ELSE s

\* s.split('/')
RECURSIVE Split(_)
Split(s) ==
    IF \A j \in 1..Len(s) : s[j] # "/" THEN <<s>>
    ELSE LET j == CHOOSE j \in 1..Len(s) : s[j] = "/" /\ \A l \in 1..(j - 1) : s[l] # "/"
         IN  <<SubSeq(s, 1, j - 1)>> \o Split(SubSeq(s, j + 1, Len(s)))

RECURSIVE DecimalValue(_)
DecimalValue(s) ==
    IF Len(s) = 0 THEN 0
    ELSE IF s[Len(s)] = "_" THEN DecimalValue(SubSeq(s, 1, Len(s) - 1))
    ELSE 10 * DecimalValue(SubSeq(s, 1, Len(s) - 1)) + DigitVal(s[Len(s)])

\* int(s): surrounding whitespace, an optional sign, digits that single
\* underscores may separate; anything else is a ValueError.
PyInt(s) ==
    LET t == RStrip(LStrip(s, {" "}), {" "})
        signed == Len(t) > 0 /\ t[1] \in {"+", "-"}
        body == IF signed THEN Tail(t) ELSE t
        wellformed ==
            /\ Len(body) > 0
            /\ IsDigit(body[1]) /\ IsDigit(body[Len(body)])
            /\ \A j \in 1..Len(body) : IsDigit(body[j]) \/ body[j] = "_"
            /\ \A j \in 1..(Len(body) - 1) : ~(body[j] = "_" /\ body[j + 1] = "_")
    IN  IF ~wellformed THEN Raise("ValueError")
        ELSE IF signed /\ t[1] = "-" THEN Ok(0 - DecimalValue(body))
        ELSE Ok(DecimalValue(body))

\* Lines 129-132: the index of one segment.
ParseSegment(i) ==
    IF \E j \in 1..Len(i) : i[j] = "'"
    THEN LET n == PyInt(SubSeq(i, 1, Len(i) - 1))
         IN  IF n.exc # "" THEN n ELSE Ok(BIP32_PRIVDEV + n.val)
    ELSE PyInt(i)

RECURSIVE ParseSegments(_)
ParseSegments(segs) ==
    IF Len(segs) = 0 THEN Ok(<<>>)
    ELSE LET first == ParseSegment(Head(segs))
         IN  IF first.exc # "" THEN first
             ELSE LET rest == ParseSegments(Tail(segs))
                  IN  IF rest.exc # "" THEN rest ELSE Ok(<<first.val>> \o rest.val)

parse_derivation_path(str_derivation_path) ==
    IF SubSeq(str_derivation_path, 1, IF Len(str_derivation_path) < 2
                                      THEN Len(str_derivation_path) ELSE 2) # <<"m", "/">>
    THEN Raise("ValueError")
    ELSE ParseSegments(Split(LStrip(str_derivation_path, {"m", "/"})))

\* f"{i}" of a non-negative integer
RECURSIVE FormatInt(_)
FormatInt(i) ==
    IF i < 10 THEN <<Digits[i + 1]>> ELSE FormatInt(i \div 10) \o <<Digits[(i % 10) + 1]>>

\* -------------------------------------------------------- addresses
\* eth_utils.to_checksum_address(address): not modelled, its argument is.
to_checksum_address(address) == <<"0x", address>>

\* ecdsa.SigningKey.from_string(...).verifying_key.to_string(): x || y, and
\* a MalformedPointError unless 1 <= scalar < order.
generate_ethereum_address(private_key) ==
    LET private_key_bytes == fromhex(private_key)
        secexp == from_bytes(private_key_bytes)
    IN  IF ~(1 <= secexp /\ secexp < Order) THEN Raise("MalformedPointError")
        ELSE LET Q == GeneratorMul(secexp)
                 public_key_bytes == to_bytes(Q[1], KeyLen).val \o to_bytes(Q[2], KeyLen).val
                 keccak_hash == keccak(public_key_bytes)
                 address == SubSeq(keccak_hash, Len(keccak_hash) - AddressLen + 1,
                                   Len(keccak_hash))
             IN  Ok(to_checksum_address(address))

\* ================================================================ inputs
HashSeeds == 0..MaxSeed
KeySamples == {<<v>> : v \in Byte}
ChainSamples == {<<5>>, <<250>>}
IndexSamples == {0, 1, BIP32_PRIVDEV - 1, BIP32_PRIVDEV, BIP32_PRIVDEV + 1,
                 2 * BIP32_PRIVDEV - 1, 2 * BIP32_PRIVDEV, 0 - 1}
MnemonicSamples == {<<100, 105, 115, 116>>, <<122, 111, 111, 233>>}
PassphraseSamples == {<<>>}
EnvSamples == {<<>>, <<"OLD">>}

Prefixes == {<<"m", "/">>, <<>>, <<"m", "/", "/">>}
Segments == {<<"0">>, <<"1", "'">>, <<"1", "2", "7">>, <<"1", "2", "8">>,
             <<"2", "5", "6">>, <<"1", "2", "8", "'">>, <<"-", "1">>, <<"-", "1", "'">>,
             <<>>, <<"a", "b", "c">>, <<"1", "'", "'">>, <<"m">>}

RECURSIVE Join(_)
Join(segs) ==
    IF Len(segs) = 0 THEN <<>>
    ELSE IF Len(segs) = 1 THEN segs[1]
    ELSE segs[1] \o <<"/">> \o Join(Tail(segs))

SegmentLists == UNION {[1..n -> Segments] : n \in 1..MaxSegs}
PathSamples == {pre \o Join(segs) : pre \in Prefixes, segs \in SegmentLists}
    \cup {<<"4", "4", "'", "/", "6", "0", "'", "/", "0", "'", "/", "0">>, ETH_DERIVATION_PATH}

\* ================================================================ frames
NoDerive == [pc |-> "none", parent_key |-> <<>>, k |-> <<>>, i |-> 0, d |-> <<>>,
             key |-> <<>>, chain_code |-> <<>>, exc |-> "", d0 |-> <<>>,
             retried |-> FALSE, last |-> <<>>, log |-> {}]
NoM2pk == [pc |-> "none", mnemonic |-> <<>>, str_derivation_path |-> <<>>,
           passphrase |-> <<>>, derivation_path |-> <<>>, idx |-> 0, bip39seed |-> <<>>,
           private_key |-> <<>>, chain_code |-> <<>>, exc |-> "", derived |-> 0]
NoBatch == [pc |-> "none", mnemonic |-> <<>>, number |-> 0, i |-> 0, account |-> <<>>,
            str_derivation_path |-> <<>>, private_key |-> <<>>, address |-> <<>>,
            exc |-> "", env0 |-> <<>>]
NoPair == [pc |-> "none", i |-> 0, d1 |-> <<>>, child1 |-> <<>>, log1 |-> {}]

vars == <<hseed, op, arg, ret, dv, mk, bt, pr, envFile>>

Init ==
    /\ hseed = 0
    /\ op = "idle"
    /\ arg = <<>>
    /\ ret = Ok(<<>>)
    /\ dv = NoDerive
    /\ mk = NoM2pk
    /\ bt = NoBatch
    /\ pr = NoPair
    /\ envFile = <<>>

\* ================================================= derive_bip32childkey
\* Lines 62-69: the frame after the first HMAC input is built.
DeriveEntry(parent_key, parent_chain_code, i) ==
    LET d == DeriveData(parent_key, parent_chain_code, i)
        f == [NoDerive EXCEPT !.parent_key = parent_key, !.k = parent_chain_code, !.i = i]
    IN  IF d.exc # "" THEN [f EXCEPT !.pc = "raised", !.exc = d.exc]
        ELSE [f EXCEPT !.pc = "loop", !.d = d.val, !.d0 = d.val]

\* Lines 70-81: one pass of `while True`, and the return when it breaks.
LoopPass(f) ==
    LET r == DeriveIter(f.k, f.d, f.parent_key, f.i)
        g == [f EXCEPT !.last = [d |-> f.d, h |-> r.h, brk |-> r.brk],
                       !.log = f.log \cup {<<f.d, r.h>>}]
    IN  IF r.brk
        THEN [g EXCEPT !.pc = "returned", !.key = r.key, !.chain_code = r.chain_code]
        ELSE [g EXCEPT !.d = r.d, !.retried = TRUE]

CallDerive ==
    /\ op = "idle"
    /\ \E s \in HashSeeds, key \in KeySamples, c \in ChainSamples, i \in IndexSamples :
        /\ hseed' = s
        /\ dv' = DeriveEntry(key, c, i)
    /\ op' = "derive_bip32childkey"
    /\ UNCHANGED <<arg, ret, mk, bt, pr, envFile>>

DeriveStep ==
    /\ dv.pc = "loop"
    /\ dv' = LoopPass(dv)
    /\ UNCHANGED <<hseed, op, arg, ret, mk, bt, pr, envFile>>

\* ===================================================== one-step calls
DepthSamples == Byte
FingerprintSamples == {<<222, 173, 190, 239>>}
ChildNrSamples == {0, BIP32_PRIVDEV - 1, 2 * BIP32_PRIVDEV - 1}
XKeySamples == {<<1>>, <<198>>}
XChainSamples == {<<7>>}

CallParse ==
    /\ op = "idle"
    /\ \E path \in PathSamples :
        /\ arg' = path
        /\ ret' = parse_derivation_path(path)
    /\ op' = "parse_derivation_path"
    /\ UNCHANGED <<hseed, dv, mk, bt, pr, envFile>>

CallPublicKey ==
    /\ op = "idle"
    /\ \E key \in KeySamples :
        /\ arg' = key
        /\ ret' = derive_public_key(key)
    /\ op' = "derive_public_key"
    /\ UNCHANGED <<hseed, dv, mk, bt, pr, envFile>>

CallXprv ==
    /\ op = "idle"
    /\ \E fp \in FingerprintSamples, key \in XKeySamples, chain \in XChainSamples,
          depth \in DepthSamples, childnr \in ChildNrSamples :
        /\ arg' = [parent_fingerprint |-> fp, key |-> key, chain |-> chain,
                   depth |-> depth, childnr |-> childnr]
        /\ ret' = b58xprv(fp, key, chain, depth, childnr)
    /\ op' = "b58xprv"
    /\ UNCHANGED <<hseed, dv, mk, bt, pr, envFile>>

CallXpub ==
    /\ op = "idle"
    /\ \E fp \in FingerprintSamples, key \in XKeySamples, chain \in XChainSamples,
          depth \in DepthSamples, childnr \in ChildNrSamples :
        LET pub == derive_public_key(key).val
        IN  /\ arg' = [parent_fingerprint |-> fp, key |-> pub, chain |-> chain,
                       depth |-> depth, childnr |-> childnr]
            /\ ret' = b58xpub(fp, pub, chain, depth, childnr)
    /\ op' = "b58xpub"
    /\ UNCHANGED <<hseed, dv, mk, bt, pr, envFile>>

\* ============================================== mnemonic_to_private_key
M2pkEntry(mnemonic, str_derivation_path, passphrase) ==
    [NoM2pk EXCEPT !.pc = "parse", !.mnemonic = mnemonic,
                   !.str_derivation_path = str_derivation_path,
                   !.passphrase = passphrase]

CallM2pk ==
    /\ op = "idle"
    /\ \E s \in HashSeeds, m \in MnemonicSamples, path \in PathSamples,
          pass \in PassphraseSamples :
        /\ hseed' = s
        /\ mk' = M2pkEntry(m, path, pass)
    /\ op' = "mnemonic_to_private_key"
    /\ UNCHANGED <<arg, ret, dv, bt, pr, envFile>>

\* Line 150
MkParse ==
    /\ mk.pc = "parse"
    /\ LET r == parse_derivation_path(mk.str_derivation_path)
       IN  mk' = IF r.exc # "" THEN [mk EXCEPT !.pc = "raised", !.exc = r.exc]
                 ELSE [mk EXCEPT !.pc = "seed", !.derivation_path = r.val]
    /\ UNCHANGED <<hseed, op, arg, ret, dv, bt, pr, envFile>>

\* Line 152
MkSeed ==
    /\ mk.pc = "seed"
    /\ mk' = [mk EXCEPT !.pc = "master",
                        !.bip39seed = mnemonic_to_bip39seed(mk.mnemonic, mk.passphrase)]
    /\ UNCHANGED <<hseed, op, arg, ret, dv, bt, pr, envFile>>

\* Lines 154-157
MkMaster ==
    /\ mk.pc = "master"
    /\ LET master == bip39seed_to_bip32masternode(mk.bip39seed)
       IN  mk' = [mk EXCEPT !.pc = "loop", !.idx = 1, !.private_key = master.key,
                            !.chain_code = master.chain_code]
    /\ UNCHANGED <<hseed, op, arg, ret, dv, bt, pr, envFile>>

\* Lines 159-161: the call of derive_bip32childkey for the next index
MkDeriveCall ==
    /\ mk.pc = "loop"
    /\ mk.idx <= Len(mk.derivation_path)
    /\ dv' = DeriveEntry(mk.private_key, mk.chain_code, mk.derivation_path[mk.idx])
    /\ mk' = [mk EXCEPT !.pc = "derive", !.derived = mk.derived + 1]
    /\ UNCHANGED <<hseed, op, arg, ret, bt, pr, envFile>>

\* Lines 160-161: its result becomes the current node
MkDeriveReturn ==
    /\ mk.pc = "derive"
    /\ dv.pc = "returned"
    /\ mk' = [mk EXCEPT !.pc = "loop", !.idx = mk.idx + 1, !.private_key = dv.key,
                        !.chain_code = dv.chain_code]
    /\ dv' = NoDerive
    /\ UNCHANGED <<hseed, op, arg, ret, bt, pr, envFile>>

MkDeriveRaise ==
    /\ mk.pc = "derive"
    /\ dv.pc = "raised"
    /\ mk' = [mk EXCEPT !.pc = "raised", !.exc = dv.exc]
    /\ dv' = NoDerive
    /\ UNCHANGED <<hseed, op, arg, ret, bt, pr, envFile>>

\* Lines 164-166
MkReturn ==
    /\ mk.pc = "loop"
    /\ mk.idx > Len(mk.derivation_path)
    /\ mk' = [mk EXCEPT !.pc = "returned", !.private_key = hexlify(mk.private_key)]
    /\ UNCHANGED <<hseed, op, arg, ret, dv, bt, pr, envFile>>

\* ======================== batch_generate_ethereum_account_from_mnemonic
\* BatchPath with the loop variable left out of the path.
BatchPath_FirstOnly(i) ==
    <<"m", "/", "4", "4", "'", "/", "6", "0", "'", "/", "0", "'", "/", "0", "/">>
        \o FormatInt(0)

\* EnvLine numbering the accounts from one.
EnvLine_OneBased(i, private_key) == <<"ACCOUNT_", i + 1, "_PRIVATE_KEY=", private_key>>

\* Line 192
BatchPath(i) ==
    <<"m", "/", "4", "4", "'", "/", "6", "0", "'", "/", "0", "'", "/", "0", "/">>
        \o FormatInt(i)

\* Line 201
EnvLine(i, private_key) == <<"ACCOUNT_", i, "_PRIVATE_KEY=", private_key>>

\* Line 190
CallBatch ==
    /\ op = "idle"
    /\ \E s \in HashSeeds, m \in MnemonicSamples, number \in 0..MaxCount,
          env \in EnvSamples :
        /\ hseed' = s
        /\ envFile' = env
        /\ bt' = [NoBatch EXCEPT !.pc = "loop", !.mnemonic = m, !.number = number,
                                 !.env0 = env]
    /\ op' = "batch_generate_ethereum_account_from_mnemonic"
    /\ UNCHANGED <<arg, ret, dv, mk, pr>>

\* Lines 191-193: the next i of range(number), and the call for its path
BtIter ==
    /\ bt.pc = "loop"
    /\ bt.i < bt.number
    /\ bt' = [bt EXCEPT !.pc = "m2pk", !.str_derivation_path = BatchPath(bt.i)]
    /\ mk' = M2pkEntry(bt.mnemonic, BatchPath(bt.i), <<>>)
    /\ UNCHANGED <<hseed, op, arg, ret, dv, pr, envFile>>

BtKeyReturn ==
    /\ bt.pc = "m2pk"
    /\ mk.pc = "returned"
    /\ bt' = [bt EXCEPT !.pc = "address", !.private_key = mk.private_key]
    /\ mk' = NoM2pk
    /\ UNCHANGED <<hseed, op, arg, ret, dv, pr, envFile>>

\* Line 194
BtAddress ==
    /\ bt.pc = "address"
    /\ LET a == generate_ethereum_address(bt.private_key)
       IN  bt' = IF a.exc # "" THEN [bt EXCEPT !.pc = "raised", !.exc = a.exc]
                 ELSE [bt EXCEPT !.pc = "append", !.address = a.val]
    /\ UNCHANGED <<hseed, op, arg, ret, dv, mk, pr, envFile>>

\* Line 198
BtAppend ==
    /\ bt.pc = "append"
    /\ bt' = [bt EXCEPT !.pc = "write",
                        !.account = Append(bt.account, <<bt.address, bt.private_key>>)]
    /\ UNCHANGED <<hseed, op, arg, ret, dv, mk, pr, envFile>>

\* Lines 199-201: one line appended to ".env"
BtWrite ==
    /\ bt.pc = "write"
    /\ envFile' = Append(envFile, EnvLine(bt.i, bt.private_key))
    /\ bt' = [bt EXCEPT !.pc = "loop", !.i = bt.i + 1]
    /\ UNCHANGED <<hseed, op, arg, ret, dv, mk, pr>>

\* Line 199: open() fails, the file cannot be appended to
BtWriteFails ==
    /\ bt.pc = "write"
    /\ bt' = [bt EXCEPT !.pc = "raised", !.exc = "OSError"]
    /\ UNCHANGED <<hseed, op, arg, ret, dv, mk, pr, envFile>>

\* Line 203
BtReturn ==
    /\ bt.pc = "loop"
    /\ bt.i >= bt.number
    /\ bt' = [bt EXCEPT !.pc = "returned"]
    /\ ret' = Ok(bt.account)
    /\ UNCHANGED <<hseed, op, arg, dv, mk, pr, envFile>>

\* ============ derive_bip32childkey at i, then at i + BIP32_PRIVDEV
PairIndexSamples == {0, 1, BIP32_PRIVDEV - 1}

CallPair ==
    /\ op = "idle"
    /\ \E s \in HashSeeds, key \in KeySamples, c \in ChainSamples, i \in PairIndexSamples :
        /\ hseed' = s
        /\ dv' = DeriveEntry(key, c, i)
        /\ pr' = [NoPair EXCEPT !.pc = "first", !.i = i]
    /\ op' = "pair"
    /\ UNCHANGED <<arg, ret, mk, bt, envFile>>

PairSecond ==
    /\ pr.pc = "first"
    /\ dv.pc = "returned"
    /\ pr' = [pr EXCEPT !.pc = "second", !.d1 = dv.d0, !.log1 = dv.log,
                        !.child1 = <<dv.key, dv.chain_code>>]
    /\ dv' = DeriveEntry(dv.parent_key, dv.k, pr.i + BIP32_PRIVDEV)
    /\ UNCHANGED <<hseed, op, arg, ret, mk, bt, envFile>>

PairDone ==
    /\ pr.pc = "second"
    /\ dv.pc = "returned"
    /\ pr' = [pr EXCEPT !.pc = "done"]
    /\ UNCHANGED <<hseed, op, arg, ret, dv, mk, bt, envFile>>

PairRaise ==
    /\ pr.pc \in {"first", "second"}
    /\ dv.pc = "raised"
    /\ pr' = [pr EXCEPT !.pc = "raised"]
    /\ UNCHANGED <<hseed, op, arg, ret, dv, mk, bt, envFile>>

Next ==
    \/ CallDerive
    \/ DeriveStep
    \/ CallParse
    \/ CallPublicKey
    \/ CallXprv
    \/ CallXpub
    \/ CallM2pk
    \/ MkParse
    \/ MkSeed
    \/ MkMaster
    \/ MkDeriveCall
    \/ MkDeriveReturn
    \/ MkDeriveRaise
    \/ MkReturn
    \/ CallBatch
    \/ BtIter
    \/ BtKeyReturn
    \/ BtAddress
    \/ BtAppend
    \/ BtWrite
    \/ BtWriteFails
    \/ BtReturn
    \/ CallPair
    \/ PairSecond
    \/ PairDone
    \/ PairRaise

Spec == Init /\ [][Next]_vars

\* ================================================================ claims
Scalar(key) == from_bytes(key)
ValidScalar(v) == 1 <= v /\ v < Order

\* C1: whenever derive_bip32childkey returns, whatever the parent key (in
\* range or not), the child private key is not zero, is less than the curve
\* order and is encoded on exactly KeyLen bytes.
C1_ChildKeyValid ==
    dv.pc = "returned" =>
        /\ Len(dv.key) = KeyLen
        /\ Scalar(dv.key) # 0
        /\ Scalar(dv.key) < Order

\* A derivation that returned for a parent key outside the valid range, after
\* at least one retry.
C1_Witness ==
    /\ op = "derive_bip32childkey"
    /\ dv.pc = "returned"
    /\ Scalar(dv.parent_key) >= Order
    /\ dv.retried

\* The path contract of the specification: the root marker "m/", then
\* '/'-delimited segments, each a non-negative decimal integer that one
\* hardened marker may follow.
HasMarker(seg) == Len(seg) > 0 /\ seg[Len(seg)] = "'"
SegmentNumber(seg) == IF HasMarker(seg) THEN SubSeq(seg, 1, Len(seg) - 1) ELSE seg
SegmentWellFormed(seg) ==
    /\ Len(SegmentNumber(seg)) > 0
    /\ \A j \in 1..Len(SegmentNumber(seg)) : IsDigit(SegmentNumber(seg)[j])
HasRootMarker(path) == Len(path) >= 2 /\ path[1] = "m" /\ path[2] = "/"
PathSegments(path) == Split(SubSeq(path, 3, Len(path)))
PathWellFormed(path) ==
    /\ HasRootMarker(path)
    /\ \A j \in 1..Len(PathSegments(path)) : SegmentWellFormed(PathSegments(path)[j])

\* C2: parse_derivation_path raises for every path that lacks the root
\* marker or has a segment that is not a non-negative decimal integer with an
\* optional trailing hardened marker.
C2_MalformedRejected ==
    op = "parse_derivation_path" => (~PathWellFormed(arg) => ret.exc # "")

RECURSIVE RefLoop(_, _, _, _)
RefLoop(k, d, parent_key, i) ==
    LET r == DeriveIter(k, d, parent_key, i)
    IN  IF r.brk THEN [key |-> r.key, chain_code |-> r.chain_code]
        ELSE RefLoop(k, r.d, parent_key, i)

RefChild(node, i) ==
    RefLoop(node.chain_code, DeriveData(node.key, node.chain_code, i).val, node.key, i)

RECURSIVE RefWalk(_, _)
RefWalk(node, path) ==
    IF Len(path) = 0 THEN node ELSE RefWalk(RefChild(node, Head(path)), Tail(path))

RefPrivateKey(mnemonic, str_path) ==
    hexlify(RefWalk(bip39seed_to_bip32masternode(mnemonic_to_bip39seed(mnemonic, <<>>)),
                    parse_derivation_path(str_path).val).key)

RefAccount(mnemonic, i) ==
    LET key == RefPrivateKey(mnemonic, ETH_DERIVATION_PATH \o FormatInt(i))
    IN  <<generate_ethereum_address(key).val, key>>

\* C4: the batch driver returns exactly `number` pairs, and the pair at
\* position i is the account of the path m/44'/60'/0'/0/i, in index order.
C4_BatchIsPipelinePerIndex ==
    bt.pc = "returned" =>
        /\ ret.exc = ""
        /\ Len(ret.val) = bt.number
        /\ \A i \in 0..(bt.number - 1) : ret.val[i + 1] = RefAccount(bt.mnemonic, i)

\* The driver returned at least two accounts, and they differ.
C4_Witness ==
    /\ bt.pc = "returned"
    /\ bt.number >= 2
    /\ ret.val[1] # ret.val[2]

\* C5: an accepted path yields one index per segment, each a value of the
\* unsigned index word, hardened exactly when its segment carries the marker.
C5_IndicesAreWords ==
    (op = "parse_derivation_path" /\ ret.exc = "") =>
        /\ Len(ret.val) = Len(PathSegments(arg))
        /\ \A j \in 1..Len(ret.val) :
            /\ 0 <= ret.val[j] /\ ret.val[j] < 2 * BIP32_PRIVDEV
            /\ j <= Len(PathSegments(arg))
               => (ret.val[j] >= BIP32_PRIVDEV <=> HasMarker(PathSegments(arg)[j]))

\* C6: for one parent and an index i below BIP32_PRIVDEV, the derivation at
\* i hashes the compressed public key of the parent followed by the index,
\* the derivation at i + BIP32_PRIVDEV hashes 0x00, the parent private key
\* and the index; the two inputs differ, and the two children differ unless
\* the hash function itself maps two different inputs to one digest.
C6_HardenedDiverges ==
    pr.pc \in {"second", "done"} =>
        LET parent == dv.parent_key
            plain == pr.d1
            hardened == dv.d0
        IN  /\ plain = derive_public_key(parent).val \o pack_L(pr.i).val
            /\ Len(plain) = 1 + KeyLen + IndexLen
            /\ plain[1] \in {2, 3}
            /\ hardened = <<0>> \o parent \o pack_L(pr.i + BIP32_PRIVDEV).val
            /\ plain # hardened
            /\ pr.pc = "done" =>
                \/ pr.child1 # <<dv.key, dv.chain_code>>
                \/ \E x \in pr.log1, y \in dv.log : x[1] # y[1] /\ x[2] = y[2]

\* Both derivations returned, the hardened one after a retry, with different
\* children.
C6_Witness ==
    /\ pr.pc = "done"
    /\ pr.child1 # <<dv.key, dv.chain_code>>
    /\ dv.retried

\* C7: derive_public_key raises for every private key whose scalar is zero or
\* not less than the curve order.
C7_InvalidScalarRaises ==
    op = "derive_public_key" => (~ValidScalar(Scalar(arg)) => ret.exc # "")

\* C8: a pass of the retry loop hashes the current input under the parent
\* chain code; it returns ((IL + parent key) mod order, IR) of that pass if
\* and only if IL < order and the candidate is not zero, and otherwise loops
\* with the input 0x01 || IR || index under the same key, index and parent.
C8_RetryLoop ==
    [][dv.pc = "loop" /\ dv' # dv =>
        LET h == hmac_sha512(dv.k, dv.d)
            IL == from_bytes(SubSeq(h, 1, KeyLen))
            IR == SubSeq(h, KeyLen + 1, 2 * KeyLen)
            candidate == (IL + from_bytes(dv.parent_key)) % Order
            valid == IL < Order /\ candidate # 0
        IN  /\ dv'.pc = (IF valid THEN "returned" ELSE "loop")
            /\ valid => /\ from_bytes(dv'.key) = candidate
                        /\ Len(dv'.key) = KeyLen
                        /\ dv'.chain_code = IR
            /\ ~valid => dv'.d = <<1>> \o IR \o pack_L(dv.i).val
            /\ dv'.k = dv.k /\ dv'.i = dv.i /\ dv'.parent_key = dv.parent_key
    ]_vars

\* A derivation returned the candidate of a later pass than the first.
C8_Witness ==
    /\ dv.pc = "returned"
    /\ dv.retried
    /\ dv.last.d # dv.d0
    /\ dv.last.d[1] = 1

PayloadLen == 4 + 1 + FingerprintLen + IndexLen + KeyLen + (KeyLen + 1)

\* C9: the payload b58xprv and b58xpub hand to the base-58 check encoder is
\* version (4 bytes), depth (1 byte, the depth itself), parent fingerprint,
\* child index big-endian, chain code, key (1 + KeyLen bytes), at those
\* offsets and of that total length.
C9_PayloadLayout ==
    op \in {"b58xprv", "b58xpub"} =>
        /\ ret.exc = ""
        /\ LET raw == ret.val[2]
               at(first, n) == SubSeq(raw, first, first + n - 1)
           IN  /\ Len(raw) = PayloadLen
               /\ at(1, 4) = (IF op = "b58xprv" THEN XPRV_VERSION ELSE XPUB_VERSION)
               /\ at(5, 1) = <<arg.depth>>
               /\ at(6, FingerprintLen) = arg.parent_fingerprint
               /\ from_bytes(at(6 + FingerprintLen, IndexLen)) = arg.childnr
               /\ at(6 + FingerprintLen + IndexLen, KeyLen) = arg.chain
               /\ at(6 + FingerprintLen + IndexLen + KeyLen, KeyLen + 1)
                    = (IF op = "b58xprv" THEN <<0>> \o arg.key ELSE arg.key)

\* Whether a segment's index fits the unsigned index word.
SegmentFits(seg) ==
    /\ SegmentWellFormed(seg)
    /\ DecimalValue(SegmentNumber(seg)) + (IF HasMarker(seg) THEN BIP32_PRIVDEV ELSE 0)
         < 2 * BIP32_PRIVDEV
PathInContract(path) ==
    /\ PathWellFormed(path)
    /\ \A j \in 1..Len(PathSegments(path)) : SegmentFits(PathSegments(path)[j])

\* C10: in mnemonic_to_private_key a path outside the contract (no root
\* marker, a malformed segment, an index that does not fit the index word) is
\* refused before the seed is stretched, before the master node and before
\* any child derivation, and no private key is returned.
C10_MalformedPathStopsFirst ==
    (op = "mnemonic_to_private_key" /\ ~PathInContract(mk.str_derivation_path)) =>
        /\ mk.pc \in {"parse", "raised"}
        /\ mk.bip39seed = <<>>
        /\ mk.derived = 0
====
